---------------------------- MODULE Spec2Model ----------------------------
(***************************************************************************)
(* The option clause parser of hurl_core (parser/option.rs).               *)
(*                                                                         *)
(* The source text is a sequence of characters, each a one-character       *)
(* string.  A reader state is the record [cursor, line, column]; every     *)
(* grammar is an operator from a reader state to an outcome                *)
(* [res, state, value, err], and `parse` is stepped statement by statement *)
(* (one action per `?` of its body) on the variables below.                *)
(***************************************************************************)
EXTENDS Integers, Sequences, FiniteSets, TLC

VARIABLES
    input,        \* the characters the reader was built on
    usize_bits,   \* width of usize on the build target
    reader,       \* reader.state: cursor and position
    entry,        \* reader.state when parse was called
    pc,           \* the statement of parse to run next
    pos,          \* `pos` of parse (line 29)
    option,       \* `option` of parse (line 30)
    start,        \* reader.state when the value grammar was entered
    node,         \* the fields of EntryOption captured so far
    result,       \* what parse returned, and the statement that returned it
    calls         \* the calls of parse the caller has made on this reader

vars == <<input, usize_bits, reader, entry, pc, pos, option, start, node, result, calls>>

---------------------------------------------------------------------------
(* Bounds of the model.  usize is NarrowBits wide on a narrow target and   *)
(* WideBits wide on a target where it is as wide as the natural (u64).     *)
NarrowBits == 3
WideBits == 5

\* the number of values of an unsigned integer of the given width
CardinalityOfWidth(bits) == 2 ^ bits

---------------------------------------------------------------------------
(* Character classes.                                                      *)
Digits == {"0", "1", "2", "3", "4", "5", "6", "7", "8", "9"}
AsciiLetters ==
    {"a", "b", "c", "d", "e", "f", "g", "h", "i", "j", "k", "l", "m",
     "n", "o", "p", "q", "r", "s", "t", "u", "v", "w", "x", "y", "z", "R"}
\* a letter outside ASCII (one scalar value, one column)
NonAsciiLetters == {"e_acute"}

is_ascii_alphanumeric(c) == c \in AsciiLetters \cup Digits
is_alphanumeric(c) == c \in AsciiLetters \cup NonAsciiLetters \cup Digits
is_ascii_digit(c) == c \in Digits

DigitValue(c) ==
    CASE c = "0" -> 0 [] c = "1" -> 1 [] c = "2" -> 2 [] c = "3" -> 3
      [] c = "4" -> 4 [] c = "5" -> 5 [] c = "6" -> 6 [] c = "7" -> 7
      [] c = "8" -> 8 [] c = "9" -> 9

RECURSIVE DecimalValue(_)
DecimalValue(ds) ==
    IF ds = <<>> THEN 0
    ELSE 10 * DecimalValue(SubSeq(ds, 1, Len(ds) - 1)) + DigitValue(ds[Len(ds)])

---------------------------------------------------------------------------
(* Reader.                                                                 *)
Origin == [cursor |-> 0, line |-> 1, column |-> 1]

Position(s) == [line |-> s.line, column |-> s.column]

is_eof(s) == s.cursor = Len(input)

peek(s) == input[s.cursor + 1]

\* the state after reading one character
read(s) ==
    IF peek(s) = "\n"
    THEN [cursor |-> s.cursor + 1, line |-> s.line + 1, column |-> 1]
    ELSE [cursor |-> s.cursor + 1, line |-> s.line, column |-> s.column + 1]

RECURSIVE advance(_, _)
advance(s, n) == IF n = 0 THEN s ELSE advance(read(s), n - 1)

\* the text between two reader states
Slice(from, to) == SubSeq(input, from.cursor + 1, to.cursor)

\* length of the maximal run of characters satisfying Pred at s
RunLength(s, Pred(_)) ==
    CHOOSE k \in 0..(Len(input) - s.cursor) :
        /\ \A i \in 1..k : Pred(input[s.cursor + i])
        /\ (s.cursor + k = Len(input) \/ ~Pred(input[s.cursor + k + 1]))

\* read_while: consumes the maximal run, possibly empty, and never fails
read_while(s, Pred(_)) == advance(s, RunLength(s, Pred))

\* whether the characters of text are next at s
LooksAt(s, text) ==
    /\ s.cursor + Len(text) <= Len(input)
    /\ SubSeq(input, s.cursor + 1, s.cursor + Len(text)) = text

---------------------------------------------------------------------------
(* Outcomes of a grammar: a value and the state after it, an error and the *)
(* state the failing grammar left, or an abort of the process.             *)
NoValue == [tag |-> "none"]
NoError == [pos |-> [line |-> 0, column |-> 0], recoverable |-> FALSE, inner |-> "none"]

Error(p, rec, what) == [pos |-> p, recoverable |-> rec, inner |-> what]

Ok(s, v) == [res |-> "ok", state |-> s, value |-> v, err |-> NoError]
Err(s, e) == [res |-> "err", state |-> s, value |-> NoValue, err |-> e]
Panic(s) == [res |-> "panic", state |-> s, value |-> NoValue, err |-> NoError]

\* a `let` binding: K of the bound value
Let(v, K(_)) == K(v)

\* the `?` operator: K of a successful outcome, else the outcome is returned
Try(r, K(_)) == IF r.res = "ok" THEN K(r) ELSE r

Whitespace(from, to) ==
    [value |-> Slice(from, to), start |-> Position(from), end |-> Position(to)]

---------------------------------------------------------------------------
(* Combinators and primitive grammars (parser/combinators, primitives,     *)
(* string, filename), which option.rs composes.                            *)

IsSpace(c) == c = " "
NotLineEnd(c) == c # "\n"

\* zero_or_more_spaces: never fails
zero_or_more_spaces(s) ==
    Let(read_while(s, IsSpace), LAMBDA to : Ok(to, Whitespace(s, to)))

\* literal(text): consumes text exactly or fails recoverably at the current
\* position, consuming nothing
literal(text, s) ==
    IF LooksAt(s, text)
    THEN Ok(advance(s, Len(text)), NoValue)
    ELSE Err(s, Error(Position(s), TRUE, "literal"))

\* try_literal(text): literal, with the state restored on failure
try_literal(text, s) ==
    Let(literal(text, s), LAMBDA r :
        IF r.res = "ok" THEN r ELSE Err(s, Error(r.err.pos, TRUE, r.err.inner)))

\* nonrecover(f, reader), given the outcome of f: a failure becomes
\* non-recoverable at the same position
nonrecover(r) ==
    IF r.res = "err"
    THEN Err(r.state, Error(r.err.pos, FALSE, r.err.inner))
    ELSE r

LineTerminator(s, s1, s2, s3) ==
    [space0 |-> Whitespace(s, s1), comment |-> Slice(s1, s2),
     newline |-> Whitespace(s2, s3)]

\* line terminator: spaces, an optional comment, the newline or end of input
line_terminator(s) ==
    Let(read_while(s, IsSpace), LAMBDA s1 :
    Let(IF ~is_eof(s1) /\ peek(s1) = "#" THEN read_while(s1, NotLineEnd) ELSE s1,
        LAMBDA s2 :
        IF is_eof(s2) THEN Ok(s2, LineTerminator(s, s1, s2, s2))
        ELSE IF peek(s2) = "\n"
        THEN Let(read(s2), LAMBDA s3 : Ok(s3, LineTerminator(s, s1, s2, s3)))
        ELSE Err(s, Error(Position(s2), FALSE, "line_terminator"))))

\* optional_line_terminators: zero or more line terminators; always succeeds
RECURSIVE optional_line_terminators(_)
optional_line_terminators(s) ==
    IF is_eof(s) THEN Ok(s, <<>>)
    ELSE Let(line_terminator(s), LAMBDA r :
             IF r.res # "ok" THEN Ok(s, <<>>)
             ELSE Let(optional_line_terminators(r.state), LAMBDA rest :
                      Ok(rest.state, <<r.value>> \o rest.value)))

TRUE_TEXT == <<"t", "r", "u", "e">>
FALSE_TEXT == <<"f", "a", "l", "s", "e">>
NULL_TEXT == <<"n", "u", "l", "l">>

\* boolean: the strict literal true or false
boolean(s) ==
    IF LooksAt(s, TRUE_TEXT) THEN Ok(advance(s, Len(TRUE_TEXT)), TRUE)
    ELSE IF LooksAt(s, FALSE_TEXT) THEN Ok(advance(s, Len(FALSE_TEXT)), FALSE)
    ELSE Err(s, Error(Position(s), TRUE, "true|false"))

null(s) ==
    IF LooksAt(s, NULL_TEXT) THEN Ok(advance(s, Len(NULL_TEXT)), NoValue)
    ELSE Err(s, Error(Position(s), TRUE, "null"))

\* natural: a non-empty run of digits, no sign, no fraction
natural(s) ==
    Let(read_while(s, is_ascii_digit), LAMBDA to :
        IF to = s THEN Err(s, Error(Position(s), TRUE, "natural"))
        ELSE Ok(to, DecimalValue(Slice(s, to))))

\* integer: an optional minus sign, then a natural
integer(s) ==
    Let(try_literal(<<"-">>, s), LAMBDA sign :
    Let(natural(sign.state), LAMBDA nat :
        IF nat.res # "ok" THEN Err(s, nat.err)
        ELSE Ok(nat.state, IF sign.res = "ok" THEN 0 - nat.value ELSE nat.value)))

\* float: an optional minus sign, digits, a dot, digits; the value keeps its text
float(s) ==
    Let(try_literal(<<"-">>, s), LAMBDA sign :
    Let(read_while(sign.state, is_ascii_digit), LAMBDA s2 :
    Let(try_literal(<<".">>, s2), LAMBDA dot :
    Let(read_while(dot.state, is_ascii_digit), LAMBDA s3 :
        IF s2 = sign.state \/ dot.res # "ok" \/ s3 = dot.state
        THEN Err(s, Error(Position(s), TRUE, "float"))
        ELSE Ok(s3, Slice(s, s3))))))

IsQuotedChar(c) == c # "\"" /\ c # "\n"
IsUnquotedChar(c) == c # "#" /\ c # "\n"

Template(delimiter, text, from, to) ==
    [delimiter |-> delimiter,
     elements |-> IF text = <<>> THEN <<>> ELSE <<[value |-> text, encoded |-> text]>>,
     start |-> Position(from), end |-> Position(to)]

\* quoted template: a quote, the text up to the next quote, a quote
quoted_template(s) ==
    Let(literal(<<"\"">>, s), LAMBDA open :
        IF open.res # "ok" THEN Err(s, open.err)
        ELSE Let(read_while(open.state, IsQuotedChar), LAMBDA s1 :
             Let(literal(<<"\"">>, s1), LAMBDA close :
                 IF close.res # "ok" THEN Err(s, close.err)
                 ELSE Ok(close.state,
                         Template("\"", Slice(open.state, s1), s, close.state)))))

\* length of text[from+1 .. from+run] without its trailing spaces
TrimmedLength(from, run) ==
    CHOOSE k \in 0..run :
        /\ (k = 0 \/ ~IsSpace(input[from + k]))
        /\ \A i \in (k + 1)..run : IsSpace(input[from + i])

\* unquoted template: the text up to a comment or the end of the line, without
\* its trailing spaces; the token must not be empty
unquoted_template(s) ==
    Let(TrimmedLength(s.cursor, RunLength(s, IsUnquotedChar)), LAMBDA len :
        IF len = 0 THEN Err(s, Error(Position(s), TRUE, "unquoted template"))
        ELSE Let(advance(s, len), LAMBDA to :
                 Ok(to, Template("none", Slice(s, to), s, to))))

IsFilenameChar(c) == is_alphanumeric(c) \/ c \in {"/", ".", "_", "-"}

\* filename::parse: an empty or invalid path token is fatal
filename_parse(s) ==
    Let(read_while(s, IsFilenameChar), LAMBDA to :
        IF to = s THEN Err(s, Error(Position(s), FALSE, "Filename"))
        ELSE Ok(to, [value |-> Slice(s, to), start |-> Position(s),
                     end |-> Position(to)]))

---------------------------------------------------------------------------
(* The value grammars of option.rs.                                        *)

IsAwsSigV4Char(c) == is_alphanumeric(c) \/ c = ":" \/ c = "-"
IsProxyChar(c) == is_alphanumeric(c) \/ c = ":" \/ c = "." \/ c = "[" \/ c = "]"
IsResolveChar(c) == is_alphanumeric(c) \/ c = ":" \/ c = "."
IsVariableNameChar(c) == is_alphanumeric(c) \/ c = "_" \/ c = "-"
IsOptionChar(c) == is_ascii_alphanumeric(c) \/ c = "-" \/ c = "."

contains(text, c) == \E i \in 1..Len(text) : text[i] = c

aws_sigv4(s) ==
    Let(read_while(s, IsAwsSigV4Char), LAMBDA to :
        IF to = s THEN Err(to, Error(Position(s), FALSE, "aws-sigv4 provider"))
        ELSE Ok(to, Slice(s, to)))

proxy(s) ==
    Let(read_while(s, IsProxyChar), LAMBDA to :
        IF to = s THEN Err(to, Error(Position(s), FALSE, "proxy name"))
        ELSE Ok(to, Slice(s, to)))

\* faulty variant of resolve: the check for ':' is missing
resolve_unchecked(s) ==
    Let(read_while(s, IsResolveChar), LAMBDA to :
    Let(Slice(s, to), LAMBDA name :
        IF name = <<>> THEN Err(to, Error(Position(s), FALSE, "resolve"))
        ELSE Ok(to, name)))

resolve(s) ==
    Let(read_while(s, IsResolveChar), LAMBDA to :
    Let(Slice(s, to), LAMBDA name :
        IF name = <<>> THEN Err(to, Error(Position(s), FALSE, "resolve"))
        ELSE IF ~contains(name, ":")
        THEN Err(to, Error(Position(s), FALSE, "HOST:PORT:ADDR"))
        ELSE Ok(to, name)))

connect_to(s) ==
    Let(read_while(s, IsResolveChar), LAMBDA to :
    Let(Slice(s, to), LAMBDA name :
        IF name = <<>> THEN Err(to, Error(Position(s), FALSE, "connect-to"))
        ELSE IF ~contains(name, ":")
        THEN Err(to, Error(Position(s), FALSE, "HOST1:PORT1:HOST2:PORT2"))
        ELSE Ok(to, name)))

\* `value as usize`: the low usize_bits bits of a positive value
as_usize(value) == value % CardinalityOfWidth(usize_bits)

\* usize::try_from(value) is Ok exactly when value fits usize
fits_usize(value) == value < CardinalityOfWidth(usize_bits)

Retry(tag, n) == [tag |-> tag, n |-> n]

\* faulty variant of retry: the error for a value below -1 is recoverable
retry_recoverable(s) ==
    Try(nonrecover(integer(s)), LAMBDA r :
        IF r.value = -1 THEN Ok(r.state, Retry("Infinite", 0))
        ELSE IF r.value = 0 THEN Ok(r.state, Retry("None", 0))
        ELSE IF r.value > 0 THEN Ok(r.state, Retry("Finite", as_usize(r.value)))
        ELSE Err(r.state, Error(Position(s), TRUE, "Expecting a retry value")))

retry(s) ==
    Try(nonrecover(integer(s)), LAMBDA r :
        IF r.value = -1 THEN Ok(r.state, Retry("Infinite", 0))
        ELSE IF r.value = 0 THEN Ok(r.state, Retry("None", 0))
        ELSE IF r.value > 0 THEN Ok(r.state, Retry("Finite", as_usize(r.value)))
        ELSE Err(r.state, Error(Position(s), FALSE, "Expecting a retry value")))

variable_name(s) ==
    Let(read_while(s, IsVariableNameChar), LAMBDA to :
        IF to = s THEN Err(to, Error(Position(s), FALSE, "variable name"))
        ELSE Ok(to, Slice(s, to)))

VariableValue(tag, r) ==
    IF r.res = "ok" THEN Ok(r.state, [tag |-> tag, value |-> r.value]) ELSE r

\* the closures handed to choice, in their order
Alternatives == 6

\* faulty variant of the closure list: the unquoted template is tried first
alternative_template_first(i, s) ==
    CASE i = 1 -> VariableValue("String", unquoted_template(s))
      [] i = 2 -> VariableValue("Null", null(s))
      [] i = 3 -> VariableValue("Bool", boolean(s))
      [] i = 4 -> VariableValue("Float", float(s))
      [] i = 5 -> VariableValue("Integer", integer(s))
      [] i = 6 -> VariableValue("String", quoted_template(s))

alternative(i, s) ==
    CASE i = 1 -> VariableValue("Null", null(s))
      [] i = 2 -> VariableValue("Bool", boolean(s))
      [] i = 3 -> VariableValue("Float", float(s))
      [] i = 4 -> VariableValue("Integer", integer(s))
      [] i = 5 -> VariableValue("String", quoted_template(s))
      [] i = 6 -> VariableValue("String", unquoted_template(s))

\* choice: each alternative in order from the snapshot taken before it; a
\* recoverable failure rewinds and tries the next, a fatal one is returned at
\* once, and when all fail recoverably the last failure is returned
RECURSIVE choice(_, _)
choice(i, s) ==
    Let(alternative(i, s), LAMBDA r :
        IF r.res = "ok" THEN r
        ELSE IF ~r.err.recoverable THEN r
        ELSE IF i = Alternatives THEN Err(s, r.err)
        ELSE choice(i + 1, s))

\* faulty variant of variable_value: the error of choice is returned as it is
variable_value_unmapped(s) == choice(1, s)

variable_value(s) ==
    Let(choice(1, s), LAMBDA r :
        IF r.res = "err"
        THEN Err(r.state, Error(r.err.pos, FALSE, "variable value"))
        ELSE r)

variable_definition(s) ==
    Try(variable_name(s), LAMBDA name :
    Let(zero_or_more_spaces(name.state), LAMBDA space0 :
    Try(literal(<<"=">>, space0.state), LAMBDA eq :
    Let(zero_or_more_spaces(eq.state), LAMBDA space1 :
    Try(variable_value(space1.state), LAMBDA value :
        Ok(value.state, [name |-> name.value, space0 |-> space0.value,
                         space1 |-> space1.value, value |-> value.value]))))))

---------------------------------------------------------------------------
(* The option_* functions: the value grammar, wrapped in its OptionKind.   *)

OptionKind(tag, r) ==
    IF r.res = "ok" THEN Ok(r.state, [tag |-> tag, value |-> r.value]) ELSE r

option_aws_sigv4(s) == OptionKind("AwsSigV4", aws_sigv4(s))
option_cacert(s) == OptionKind("CaCertificate", filename_parse(s))
option_cert(s) == OptionKind("ClientCert", filename_parse(s))
option_compressed(s) == OptionKind("Compressed", nonrecover(boolean(s)))
option_connect_to(s) == OptionKind("ConnectTo", connect_to(s))
option_delay(s) == OptionKind("Delay", nonrecover(natural(s)))
option_follow_location(s) == OptionKind("FollowLocation", nonrecover(boolean(s)))
option_http_10(s) == OptionKind("Http10", nonrecover(boolean(s)))
option_http_11(s) == OptionKind("Http11", nonrecover(boolean(s)))
option_http_2(s) == OptionKind("Http2", nonrecover(boolean(s)))
option_http_3(s) == OptionKind("Http3", nonrecover(boolean(s)))
option_insecure(s) == OptionKind("Insecure", nonrecover(boolean(s)))
option_ipv4(s) == OptionKind("IpV4", nonrecover(boolean(s)))
option_ipv6(s) == OptionKind("IpV6", nonrecover(boolean(s)))
option_key(s) == OptionKind("ClientKey", filename_parse(s))

\* usize::try_from(value).unwrap(): aborts when the natural does not fit usize
option_max_redirect(s) ==
    Try(nonrecover(natural(s)), LAMBDA r :
        IF ~fits_usize(r.value) THEN Panic(r.state)
        ELSE OptionKind("MaxRedirect", r))

option_path_as_is(s) == OptionKind("PathAsIs", nonrecover(boolean(s)))
option_proxy(s) == OptionKind("Proxy", proxy(s))
option_resolve(s) == OptionKind("Resolve", resolve(s))
option_retry(s) == OptionKind("Retry", retry(s))
option_retry_interval(s) == OptionKind("RetryInterval", nonrecover(natural(s)))
option_variable(s) == OptionKind("Variable", variable_definition(s))
option_verbose(s) == OptionKind("Verbose", nonrecover(boolean(s)))
option_very_verbose(s) == OptionKind("VeryVerbose", nonrecover(boolean(s)))

KW_aws_sigv4 == <<"a","w","s","-","s","i","g","v","4">>
KW_cacert == <<"c","a","c","e","r","t">>
KW_cert == <<"c","e","r","t">>
KW_compressed == <<"c","o","m","p","r","e","s","s","e","d">>
KW_connect_to == <<"c","o","n","n","e","c","t","-","t","o">>
KW_delay == <<"d","e","l","a","y">>
KW_insecure == <<"i","n","s","e","c","u","r","e">>
KW_http1_0 == <<"h","t","t","p","1",".","0">>
KW_http1_1 == <<"h","t","t","p","1",".","1">>
KW_http2 == <<"h","t","t","p","2">>
KW_http3 == <<"h","t","t","p","3">>
KW_ipv4 == <<"i","p","v","4">>
KW_ipv6 == <<"i","p","v","6">>
KW_key == <<"k","e","y">>
KW_location == <<"l","o","c","a","t","i","o","n">>
KW_max_redirs == <<"m","a","x","-","r","e","d","i","r","s">>
KW_path_as_is == <<"p","a","t","h","-","a","s","-","i","s">>
KW_proxy == <<"p","r","o","x","y">>
KW_resolve == <<"r","e","s","o","l","v","e">>
KW_retry == <<"r","e","t","r","y">>
KW_retry_interval == <<"r","e","t","r","y","-","i","n","t","e","r","v","a","l">>
KW_variable == <<"v","a","r","i","a","b","l","e">>
KW_verbose == <<"v","e","r","b","o","s","e">>
KW_very_verbose == <<"v","e","r","y","-","v","e","r","b","o","s","e">>

BooleanKeywords ==
    {KW_compressed, KW_insecure, KW_http1_0, KW_http1_1, KW_http2, KW_http3,
     KW_ipv4, KW_ipv6, KW_location, KW_path_as_is, KW_verbose, KW_very_verbose}
NaturalKeywords == {KW_delay, KW_max_redirs, KW_retry_interval}
FilenameKeywords == {KW_cacert, KW_cert, KW_key}
SupportedKeywords ==
    BooleanKeywords \cup NaturalKeywords \cup FilenameKeywords
    \cup {KW_aws_sigv4, KW_connect_to, KW_proxy, KW_resolve, KW_retry, KW_variable}

\* faulty variant of the `_` arm: the error is fatal
invalid_option_fatal(s) == Err(s, Error(pos, FALSE, "InvalidOption"))

\* faulty variant of the `_` arm: the reader is rewound to where parse began
invalid_option_rewinds(s) == Err(entry, Error(pos, TRUE, "InvalidOption"))

\* the `_` arm of the match: the keyword is not an option
invalid_option(s) == Err(s, Error(pos, TRUE, "InvalidOption"))

\* the match of parse on the keyword
match_option(name, s) ==
    CASE name = KW_aws_sigv4 -> option_aws_sigv4(s)
      [] name = KW_cacert -> option_cacert(s)
      [] name = KW_cert -> option_cert(s)
      [] name = KW_compressed -> option_compressed(s)
      [] name = KW_connect_to -> option_connect_to(s)
      [] name = KW_delay -> option_delay(s)
      [] name = KW_insecure -> option_insecure(s)
      [] name = KW_http1_0 -> option_http_10(s)
      [] name = KW_http1_1 -> option_http_11(s)
      [] name = KW_http2 -> option_http_2(s)
      [] name = KW_http3 -> option_http_3(s)
      [] name = KW_ipv4 -> option_ipv4(s)
      [] name = KW_ipv6 -> option_ipv6(s)
      [] name = KW_key -> option_key(s)
      [] name = KW_location -> option_follow_location(s)
      [] name = KW_max_redirs -> option_max_redirect(s)
      [] name = KW_path_as_is -> option_path_as_is(s)
      [] name = KW_proxy -> option_proxy(s)
      [] name = KW_resolve -> option_resolve(s)
      [] name = KW_retry -> option_retry(s)
      [] name = KW_retry_interval -> option_retry_interval(s)
      [] name = KW_variable -> option_variable(s)
      [] name = KW_verbose -> option_verbose(s)
      [] name = KW_very_verbose -> option_very_verbose(s)
      [] OTHER -> invalid_option(s)

---------------------------------------------------------------------------
(* The inputs: trivia, a candidate keyword, what separates it from the     *)
(* value, a value text and the rest of the line.  Every natural written in *)
(* a value is below 2^WideBits, the range of the natural's own type.       *)

Leads == { <<>>, <<" ">>, <<"\n">>, <<"#", "c", "\n", " ">> }
Separators == { <<":">>, <<":", " ">>, <<" ", ":", " ">>, <<" ">>, <<"=">> }
Rests == { <<>>, <<"\n">>, <<" ", "#", "c", "\n">>, <<" ", "!">> }

UnknownKeywords == { <<>>, <<"f", "o", "o">>, <<"R", "e", "t", "r", "y">> }

BooleanTexts == { TRUE_TEXT, FALSE_TEXT, <<"e", "r", "r", "o", "r">>, <<>>, <<"1">> }
NumberTexts ==
    { <<"0">>, <<"-", "0">>, <<"-", "1">>, <<"-", "2">>, <<"7">>, <<"1", "2">>,
      <<"1", ".", "5">>, <<>>, TRUE_TEXT }
NameTexts ==
    { <<"a", ":", "1">>, <<"a", ".", "b">>, <<":">>, <<"e_acute", ":", "1">>,
      <<>>, <<"#", "#", "#">>, <<"/", "f">> }
DefinitionTexts ==
    { <<"a", "=", "t", "r", "u", "e">>, <<"a", "=", "1">>, <<"a", "=", "-", "0">>,
      <<"a", " ", "=", " ", "1", ".", "5">>, <<"a", "=", "n", "u", "l", "l">>,
      <<"a", "=", "t", "o", "t", "o">>, <<"a", "=", "\"", "1", "2", "3", "\"">>,
      <<"a", "=", "\"", "x">>, <<"a", "=">>, <<"a", " ", "1">>, <<"=", "1">>, <<>> }

ValueTexts(keyword) ==
    IF keyword \in BooleanKeywords THEN BooleanTexts
    ELSE IF keyword \in NaturalKeywords \cup {KW_retry} THEN NumberTexts
    ELSE IF keyword = KW_variable THEN DefinitionTexts
    ELSE IF keyword \in SupportedKeywords THEN NameTexts
    ELSE { TRUE_TEXT, <<"a", ":", "1">>, <<>> }

NoWhitespace == [value |-> <<>>, start |-> [line |-> 0, column |-> 0],
                 end |-> [line |-> 0, column |-> 0]]
NoLineTerminator == [space0 |-> NoWhitespace, comment |-> <<>>, newline |-> NoWhitespace]
NoNode ==
    [line_terminators |-> <<>>, space0 |-> NoWhitespace, space1 |-> NoWhitespace,
     space2 |-> NoWhitespace, kind |-> NoValue, line_terminator0 |-> NoLineTerminator]

NoResult == [tag |-> "none", err |-> NoError, at |-> "none"]

Keywords == SupportedKeywords \cup UnknownKeywords

Clauses ==
    UNION { { lead \o keyword \o sep \o text \o rest :
                lead \in Leads, sep \in Separators,
                text \in ValueTexts(keyword), rest \in Rests } :
            keyword \in Keywords }

\* texts of several clauses, for a caller that parses one clause after another
INSECURE_LINE == KW_insecure \o <<":">> \o TRUE_TEXT \o <<"\n">>
RETRY_LINE == KW_retry \o <<":", " ", "7", " ", "#", "c", "\n">>
VERBOSE_LAST == <<"\n">> \o KW_verbose \o <<":">> \o FALSE_TEXT
Sections ==
    { INSECURE_LINE \o RETRY_LINE,
      INSECURE_LINE \o RETRY_LINE \o VERBOSE_LAST,
      INSECURE_LINE \o INSECURE_LINE \o RETRY_LINE \o <<"\n">>,
      RETRY_LINE \o VERBOSE_LAST \o <<" ", "!">>,
      INSECURE_LINE \o KW_retry \o <<":">>,
      RETRY_LINE \o <<"f", "o", "o", ":", "\n">> }

Inputs == Clauses \cup Sections

Init ==
    /\ input \in Inputs
    /\ usize_bits \in {NarrowBits, WideBits}
    /\ reader = Origin
    /\ entry = Origin
    /\ start = Origin
    /\ pc = "line_terminators"
    /\ pos = Position(Origin)
    /\ option = <<>>
    /\ node = NoNode
    /\ result = NoResult
    /\ calls = 1

---------------------------------------------------------------------------
(* parse, one action per statement.  A statement whose grammar fails       *)
(* returns the error at once (`?`), leaving the reader as the grammar left *)
(* it; an abort ends the call without a returned value.                    *)

Return(r) ==
    /\ pc' = "done"
    /\ reader' = r.state
    /\ result' = IF r.res = "err" THEN [tag |-> "Err", err |-> r.err, at |-> pc]
                 ELSE [tag |-> "Panic", err |-> NoError, at |-> pc]

\* let line_terminators = optional_line_terminators(reader)?;
LineTerminators ==
    /\ pc = "line_terminators"
    /\ \E r \in {optional_line_terminators(reader)} :
       /\ reader' = r.state
       /\ node' = [node EXCEPT !.line_terminators = r.value]
       /\ pc' = "space0"
    /\ UNCHANGED <<input, usize_bits, calls, entry, pos, option, start, result>>

\* let space0 = zero_or_more_spaces(reader)?;
Space0 ==
    /\ pc = "space0"
    /\ \E r \in {zero_or_more_spaces(reader)} :
       /\ reader' = r.state
       /\ node' = [node EXCEPT !.space0 = r.value]
       /\ pc' = "option"
    /\ UNCHANGED <<input, usize_bits, calls, entry, pos, option, start, result>>

\* let pos = reader.state.pos.clone(); let option = reader.read_while(..);
ReadOption ==
    /\ pc = "option"
    /\ \E to \in {read_while(reader, IsOptionChar)} :
       /\ pos' = Position(reader)
       /\ option' = Slice(reader, to)
       /\ reader' = to
       /\ pc' = "space1"
    /\ UNCHANGED <<input, usize_bits, calls, entry, node, start, result>>

\* let space1 = zero_or_more_spaces(reader)?;
Space1 ==
    /\ pc = "space1"
    /\ \E r \in {zero_or_more_spaces(reader)} :
       /\ reader' = r.state
       /\ node' = [node EXCEPT !.space1 = r.value]
       /\ pc' = "colon"
    /\ UNCHANGED <<input, usize_bits, calls, entry, pos, option, start, result>>

\* try_literal(":", reader)?;
Colon ==
    /\ pc = "colon"
    /\ \E r \in {try_literal(<<":">>, reader)} :
       IF r.res = "ok"
       THEN /\ reader' = r.state
            /\ pc' = "space2"
            /\ UNCHANGED result
       ELSE Return(r)
    /\ UNCHANGED <<input, usize_bits, calls, entry, pos, option, node, start>>

\* let space2 = zero_or_more_spaces(reader)?;
Space2 ==
    /\ pc = "space2"
    /\ \E r \in {zero_or_more_spaces(reader)} :
       /\ reader' = r.state
       /\ start' = r.state
       /\ node' = [node EXCEPT !.space2 = r.value]
       /\ pc' = "kind"
    /\ UNCHANGED <<input, usize_bits, calls, entry, pos, option, result>>

\* let kind = match option.as_str() { .. };
Kind ==
    /\ pc = "kind"
    /\ \E r \in {match_option(option, reader)} :
       IF r.res = "ok"
       THEN /\ reader' = r.state
            /\ node' = [node EXCEPT !.kind = r.value]
            /\ pc' = "line_terminator0"
            /\ UNCHANGED result
       ELSE Return(r) /\ UNCHANGED node
    /\ UNCHANGED <<input, usize_bits, calls, entry, pos, option, start>>

\* a parse that hands the reader back as it was on entry when it succeeds
LineTerminator0_rewound ==
    /\ pc = "line_terminator0"
    /\ \E r \in {line_terminator(reader)} :
       IF r.res = "ok"
       THEN /\ reader' = entry
            /\ node' = [node EXCEPT !.line_terminator0 = r.value]
            /\ pc' = "done"
            /\ result' = [tag |-> "Ok", err |-> NoError, at |-> pc]
       ELSE Return(r) /\ UNCHANGED node
    /\ UNCHANGED <<input, usize_bits, calls, entry, pos, option, start>>

\* let line_terminator0 = line_terminator(reader)?; Ok(EntryOption { .. })
LineTerminator0 ==
    /\ pc = "line_terminator0"
    /\ \E r \in {line_terminator(reader)} :
       IF r.res = "ok"
       THEN /\ reader' = r.state
            /\ node' = [node EXCEPT !.line_terminator0 = r.value]
            /\ pc' = "done"
            /\ result' = [tag |-> "Ok", err |-> NoError, at |-> pc]
       ELSE Return(r) /\ UNCHANGED node
    /\ UNCHANGED <<input, usize_bits, calls, entry, pos, option, start>>

\* the caller: after a clause was returned it calls parse again on the same
\* reader, until parse returns an error
ParseAgain ==
    /\ pc = "done"
    /\ result.tag = "Ok"
    /\ entry' = reader
    /\ start' = reader
    /\ pc' = "line_terminators"
    /\ pos' = Position(reader)
    /\ option' = <<>>
    /\ node' = NoNode
    /\ result' = NoResult
    /\ calls' = calls + 1
    /\ UNCHANGED <<input, usize_bits, reader>>

Next ==
    \/ ParseAgain
    \/ LineTerminators
    \/ Space0
    \/ ReadOption
    \/ Space1
    \/ Colon
    \/ Space2
    \/ Kind
    \/ LineTerminator0

Spec == Init /\ [][Next]_vars

---------------------------------------------------------------------------
(* Properties.                                                             *)

Done == pc = "done"
Failed == Done /\ result.tag = "Err"
Succeeded == Done /\ result.tag = "Ok"

\* the match on the keyword has been run
KindRan ==
    \/ pc = "line_terminator0"
    \/ Done /\ result.at \in {"kind", "line_terminator0"}

\* the match returned an error or aborted
KindFailed == Done /\ result.at = "kind"

\* the text at the value's start that reads as a signed integer: an optional
\* minus sign and a run of digits
SignLength == IF LooksAt(start, <<"-">>) THEN 1 ELSE 0
DigitsLength == RunLength(advance(start, SignLength), is_ascii_digit)
IntegerRead ==
    LET digits == SubSeq(input, start.cursor + SignLength + 1,
                         start.cursor + SignLength + DigitsLength)
    IN  IF SignLength = 1 THEN 0 - DecimalValue(digits) ELSE DecimalValue(digits)

RetryRan == KindRan /\ option = KW_retry /\ DigitsLength > 0

RetryError ==
    /\ KindFailed
    /\ result.tag = "Err"
    /\ ~result.err.recoverable
    /\ result.err.pos = Position(start)

RetryValue(v) == ~KindFailed /\ node.kind = [tag |-> "Retry", value |-> v]

\* C1: for every signed integer n read for `retry`, the result is Infinite
\* when n = -1, None when n = 0, Finite(n) when n > 0, and a non-recoverable
\* error at the start of the value when n < -1.
C1_RetrySentinelLaw ==
    RetryRan =>
        CASE IntegerRead = -1 -> RetryValue(Retry("Infinite", 0))
          [] IntegerRead = 0 -> RetryValue(Retry("None", 0))
          [] IntegerRead > 0 -> RetryValue(Retry("Finite", IntegerRead))
          [] OTHER -> RetryError

\* C2: once the keyword is one of the supported keywords, any failure later
\* in the clause (value grammar, variable definition, trailing line
\* terminator) is returned with recoverable = false.
C2_CommitmentMonotonicity ==
    (Failed /\ option \in SupportedKeywords
        /\ result.at \in {"kind", "line_terminator0"})
        => ~result.err.recoverable

\* the ':' was found after the keyword and the spaces following it
ColonFollowed ==
    /\ start.cursor > Len(node.space2.value)
    /\ input[start.cursor - Len(node.space2.value)] = ":"

\* C3 as stated: for a candidate keyword that is not supported, parse returns
\* a recoverable error positioned at the keyword's first character, whatever
\* follows the keyword.
C3_UnknownKeywordAtKeyword ==
    (Done /\ option \notin SupportedKeywords) =>
        /\ result.tag = "Err"
        /\ result.err.recoverable
        /\ result.err.pos = pos

\* C3 as amended: for a candidate keyword that is not supported, parse returns
\* a recoverable error; it is positioned at the keyword's first character
\* when a ':' follows the keyword and its trailing spaces, and at the place
\* where the ':' was expected (after those spaces) otherwise.
C3_UnknownKeywordRecoverable ==
    (Done /\ option \notin SupportedKeywords) =>
        /\ result.tag = "Err"
        /\ result.err.recoverable
        /\ \/ /\ result.at = "kind"
              /\ ColonFollowed
              /\ result.err.pos = pos
              /\ result.err.inner = "InvalidOption"
           \/ /\ result.at = "colon"
              /\ is_eof(reader) \/ peek(reader) # ":"
              /\ result.err.pos = node.space1.end
              /\ result.err.pos = Position(reader)

\* an unknown, non-empty keyword after leading space, followed by ':'
C3_Witness ==
    /\ Done
    /\ option = <<"f", "o", "o">>
    /\ pos.column > 1
    /\ ColonFollowed
    /\ result.tag = "Err"
    /\ result.err.pos = pos

\* C4 as stated: every error parse returns has recoverable = false.
C4_NoRecoverableEscapes == Failed => ~result.err.recoverable

\* C4 as amended: the errors parse returns with recoverable = true are the
\* missing ':' after the keyword, the unrecognized keyword, and the missing
\* '=' that literal reports in a variable definition; every other error
\* parse returns is non-recoverable.
C4_RecoverableOnlyBeforeCommit ==
    (Failed /\ result.err.recoverable) =>
        \/ result.at = "colon"
        \/ result.at = "kind" /\ option \notin SupportedKeywords
        \/ /\ result.at = "kind"
           /\ option = KW_variable
           /\ result.err.inner = "literal"

\* a recoverable error returned to the caller: a supported keyword that no
\* ':' follows
C4_Witness ==
    /\ Failed
    /\ result.err.recoverable
    /\ result.at = "colon"
    /\ option = KW_insecure

\* the run of alphanumeric, ':' and '.' characters at the value's start
ResolveRun ==
    SubSeq(input, start.cursor + 1, start.cursor + RunLength(start, IsResolveChar))

\* C5: the string accepted by the resolve and connect-to grammars is
\* non-empty and contains a ':'; when the captured run is empty or has no
\* ':', the grammar returns a non-recoverable error at the start of the value
\* and no value.
C5_ResolveStructuralLaw ==
    (KindRan /\ option \in {KW_resolve, KW_connect_to}) =>
        IF ResolveRun = <<>> \/ ~contains(ResolveRun, ":")
        THEN /\ KindFailed
             /\ result.tag = "Err"
             /\ ~result.err.recoverable
             /\ result.err.pos = Position(start)
             /\ node.kind = NoValue
        ELSE /\ ~KindFailed
             /\ node.kind.tag = IF option = KW_resolve THEN "Resolve" ELSE "ConnectTo"
             /\ node.kind.value = ResolveRun
             /\ Len(node.kind.value) > 0
             /\ \E i \in 1..Len(node.kind.value) : node.kind.value[i] = ":"

\* resolve accepted a value with a ':', and rejected nothing
C5_Witness ==
    /\ pc = "line_terminator0"
    /\ option = KW_resolve
    /\ node.kind = [tag |-> "Resolve", value |-> <<"a", ":", "1">>]

---------------------------------------------------------------------------
(* Variable values.                                                        *)

\* where the name, the '=' and the value of a variable definition begin
NameLength == RunLength(start, IsVariableNameChar)
BeforeEq == read_while(advance(start, NameLength), IsSpace)
EqFound == NameLength > 0 /\ LooksAt(BeforeEq, <<"=">>)
ValueStart == read_while(advance(BeforeEq, 1), IsSpace)

VariableRan == KindRan /\ option = KW_variable /\ EqFound

\* the VariableValue held by the node
ParsedValue == node.kind.value.value

\* the text of the value up to a comment or the end of the line, trimmed
LineText ==
    SubSeq(input, ValueStart.cursor + 1,
           ValueStart.cursor
             + TrimmedLength(ValueStart.cursor, RunLength(ValueStart, IsUnquotedChar)))

\* the first grammar, in the order null, boolean, float, integer, quoted
\* template, unquoted template, that accepts the text at the value's start
FirstAccepting ==
    LET vs == ValueStart IN
    IF null(vs).res = "ok" THEN [tag |-> "Null", r |-> null(vs)]
    ELSE IF boolean(vs).res = "ok" THEN [tag |-> "Bool", r |-> boolean(vs)]
    ELSE IF float(vs).res = "ok" THEN [tag |-> "Float", r |-> float(vs)]
    ELSE IF integer(vs).res = "ok" THEN [tag |-> "Integer", r |-> integer(vs)]
    ELSE IF quoted_template(vs).res = "ok"
    THEN [tag |-> "String", r |-> quoted_template(vs)]
    ELSE [tag |-> "String", r |-> unquoted_template(vs)]

TOTO_TEXT == <<"t", "o", "t", "o">>
DIGITS_123 == <<"1", "2", "3">>

\* C6: variable_value returns the result of the first alternative that
\* succeeds in the order null, boolean, float, integer, quoted template,
\* unquoted template, parsed from where the value begins; `true` yields
\* Bool(true), `1` yields Integer(1), `toto` an unquoted one-segment string
\* template and `"123"` a quoted string template, not Integer(123).
C6_VariableValuePrecedence ==
    VariableRan =>
        /\ FirstAccepting.r.res = "ok" =>
              /\ ~KindFailed
              /\ ParsedValue = [tag |-> FirstAccepting.tag,
                                value |-> FirstAccepting.r.value]
              /\ pc = "line_terminator0" => reader = FirstAccepting.r.state
        /\ LineText = TRUE_TEXT => ParsedValue = [tag |-> "Bool", value |-> TRUE]
        /\ LineText = <<"1">> => ParsedValue = [tag |-> "Integer", value |-> 1]
        /\ LineText = TOTO_TEXT =>
              /\ ParsedValue.tag = "String"
              /\ ParsedValue.value.delimiter = "none"
              /\ ParsedValue.value.elements
                    = <<[value |-> TOTO_TEXT, encoded |-> TOTO_TEXT]>>
              /\ ParsedValue.value.start = Position(ValueStart)
        /\ LineText = <<"\"">> \o DIGITS_123 \o <<"\"">> =>
              /\ ParsedValue.tag = "String"
              /\ ParsedValue.value.delimiter = "\""
              /\ ParsedValue.value.elements
                    = <<[value |-> DIGITS_123, encoded |-> DIGITS_123]>>

\* `1` was parsed as Integer(1) after null, boolean and float had failed
C6_Witness ==
    /\ pc = "line_terminator0"
    /\ option = KW_variable
    /\ EqFound
    /\ LineText = <<"1">>
    /\ float(ValueStart).res = "err"
    /\ ParsedValue = [tag |-> "Integer", value |-> 1]

\* every alternative of variable_value fails recoverably at the value's start
FailsRecoverably(r) == r.res = "err" /\ r.err.recoverable
AllAlternativesFail ==
    /\ FailsRecoverably(null(ValueStart))
    /\ FailsRecoverably(boolean(ValueStart))
    /\ FailsRecoverably(float(ValueStart))
    /\ FailsRecoverably(integer(ValueStart))
    /\ FailsRecoverably(quoted_template(ValueStart))
    /\ FailsRecoverably(unquoted_template(ValueStart))

\* C8: when every alternative of variable_value fails recoverably, the error
\* returned is the single non-recoverable `expecting variable value` at the
\* position the cursor had when variable_value was called.
C8_VariableValueError ==
    (VariableRan /\ AllAlternativesFail) =>
        /\ KindFailed
        /\ result.tag = "Err"
        /\ result.err = Error(Position(ValueStart), FALSE, "variable value")

\* a variable definition whose value is missing
C8_Witness ==
    /\ VariableRan
    /\ AllAlternativesFail
    /\ KindFailed
    /\ result.err.inner = "variable value"
    /\ ValueStart.cursor > start.cursor

---------------------------------------------------------------------------
(* The text of a node: its captured fields, in order.  A typed value is    *)
(* written in its canonical form.                                          *)

DigitChar(d) == CHOOSE c \in Digits : DigitValue(c) = d

RECURSIVE Decimal(_)
Decimal(n) ==
    IF n < 10 THEN <<DigitChar(n)>>
    ELSE Decimal(n \div 10) \o <<DigitChar(n % 10)>>

SignedDecimal(n) == IF n < 0 THEN <<"-">> \o Decimal(0 - n) ELSE Decimal(n)

BooleanText(b) == IF b THEN TRUE_TEXT ELSE FALSE_TEXT

RECURSIVE Concat(_)
Concat(texts) == IF texts = <<>> THEN <<>> ELSE Head(texts) \o Concat(Tail(texts))

LineTerminatorText(lt) == lt.space0.value \o lt.comment \o lt.newline.value

TemplateText(template) ==
    LET quote == IF template.delimiter = "none" THEN <<>> ELSE <<template.delimiter>>
    IN  quote \o Concat([i \in 1..Len(template.elements) |-> template.elements[i].encoded])
          \o quote

VariableValueText(v) ==
    CASE v.tag = "Null" -> NULL_TEXT
      [] v.tag = "Bool" -> BooleanText(v.value)
      [] v.tag = "Float" -> v.value
      [] v.tag = "Integer" -> SignedDecimal(v.value)
      [] v.tag = "String" -> TemplateText(v.value)

RetryText(v) ==
    CASE v.tag = "Infinite" -> <<"-", "1">>
      [] v.tag = "None" -> <<"0">>
      [] v.tag = "Finite" -> Decimal(v.n)

KeywordOf(tag) ==
    CASE tag = "AwsSigV4" -> KW_aws_sigv4
      [] tag = "CaCertificate" -> KW_cacert
      [] tag = "ClientCert" -> KW_cert
      [] tag = "Compressed" -> KW_compressed
      [] tag = "ConnectTo" -> KW_connect_to
      [] tag = "Delay" -> KW_delay
      [] tag = "Insecure" -> KW_insecure
      [] tag = "Http10" -> KW_http1_0
      [] tag = "Http11" -> KW_http1_1
      [] tag = "Http2" -> KW_http2
      [] tag = "Http3" -> KW_http3
      [] tag = "IpV4" -> KW_ipv4
      [] tag = "IpV6" -> KW_ipv6
      [] tag = "ClientKey" -> KW_key
      [] tag = "FollowLocation" -> KW_location
      [] tag = "MaxRedirect" -> KW_max_redirs
      [] tag = "PathAsIs" -> KW_path_as_is
      [] tag = "Proxy" -> KW_proxy
      [] tag = "Resolve" -> KW_resolve
      [] tag = "Retry" -> KW_retry
      [] tag = "RetryInterval" -> KW_retry_interval
      [] tag = "Variable" -> KW_variable
      [] tag = "Verbose" -> KW_verbose
      [] tag = "VeryVerbose" -> KW_very_verbose

KindText(kind) ==
    CASE KeywordOf(kind.tag) \in BooleanKeywords -> BooleanText(kind.value)
      [] KeywordOf(kind.tag) \in NaturalKeywords -> Decimal(kind.value)
      [] KeywordOf(kind.tag) \in FilenameKeywords -> kind.value.value
      [] kind.tag = "Retry" -> RetryText(kind.value)
      [] kind.tag = "Variable" ->
            kind.value.name \o kind.value.space0.value \o <<"=">>
              \o kind.value.space1.value \o VariableValueText(kind.value.value)
      [] OTHER -> kind.value

NodeText(n) ==
    Concat([i \in 1..Len(n.line_terminators) |-> LineTerminatorText(n.line_terminators[i])])
      \o n.space0.value \o KeywordOf(n.kind.tag) \o n.space1.value \o <<":">>
      \o n.space2.value \o KindText(n.kind) \o LineTerminatorText(n.line_terminator0)

\* C7: when parse succeeds, concatenating the captured fields of the node in
\* order (line terminators, space, keyword, space, ':', space, value text,
\* line terminator) reproduces the input slice parse consumed.
C7_RoundTrip == Succeeded => NodeText(node) = Slice(entry, reader)

\* C9 as stated: whenever parse returns an error, the reader's cursor is the
\* one it had when parse was called.
C9_CursorRestoredOnError == Failed => reader = entry

\* C9 as amended: parse does not rewind the reader when it returns an error:
\* the cursor stays where the failing statement left it, never before the
\* position on entry; for the unrecognized keyword it is after the ':' and
\* the spaces following it, and for a missing ':' it is after the keyword and
\* the spaces following it.  Restoring the entry position is left to the
\* caller.
C9_CursorLeftWhereFailed ==
    Failed =>
        /\ reader.cursor >= entry.cursor
        /\ (result.at = "kind" /\ option \notin SupportedKeywords) =>
              /\ reader = start
              /\ Position(reader) = node.space2.end
              /\ reader.cursor > entry.cursor
        /\ result.at = "colon" =>
              /\ Position(reader) = node.space1.end
              /\ reader.cursor >= entry.cursor + Len(option)

\* the unrecognized keyword error, with the cursor left after the ':'
C9_Witness ==
    /\ Failed
    /\ result.at = "kind"
    /\ result.err.recoverable
    /\ option = <<"R", "e", "t", "r", "y">>
    /\ reader.cursor > entry.cursor + Len(option)

\* C10: every call of parse ends by returning a clause node or an error
\* value and never aborts, also for a max-redirs natural that does not fit
\* the machine-size unsigned integer.
C10_NeverAborts == Done => result.tag \in {"Ok", "Err"}

\* the trailing line terminator of the returned node ended the line or the input
TerminatorConsumed ==
    /\ Position(reader) = node.line_terminator0.newline.end
    /\ \/ node.line_terminator0.newline.value = <<"\n">>
       \/ node.line_terminator0.newline.value = <<>> /\ is_eof(reader)

\* C11: every successful parse leaves the cursor exactly after the consumed
\* trailing line terminator (or at end of input) and strictly beyond the
\* position it had on entry, so a caller that calls parse again and again on
\* the same reader until an error is returned makes finitely many calls: each
\* call but the last consumed a character of the input, so there are at most
\* Len(input) + 1 calls.
C11_ProgressAndTermination ==
    /\ Succeeded => TerminatorConsumed /\ reader.cursor > entry.cursor
    /\ calls <= entry.cursor + 1
    /\ entry.cursor <= reader.cursor
    /\ reader.cursor <= Len(input)

\* a clause returned by a later call of the loop, ending at the end of input
\* without a newline
C11_Witness ==
    /\ Succeeded
    /\ calls = 3
    /\ entry.cursor > 0
    /\ option = KW_verbose
    /\ is_eof(reader)
    /\ node.line_terminator0.newline.value = <<>>

=============================================================================
